---- MODULE Spec2Model ----
(***************************************************************************)
(* Model of the device API client of the spatial agent library:            *)
(* DeviceBackend (libs/spatial-agent/src/backends/postgis.ts, l.226-445).  *)
(*                                                                         *)
(* Each call slot is one invocation of sendCommand, getCommandStatus or    *)
(* cancelCommand.  Every such invocation runs the private retrying         *)
(* DeviceBackend.fetch; the model follows fetch across its two suspension  *)
(* points (the awaited physical request and the awaited backoff timer), so *)
(* that invocations interleave exactly where the event loop lets them.     *)
(* The device API is the environment: each physical attempt is answered     *)
(* with a success status, a non-success status, or it hits the per-attempt *)
(* timeout; the body of a successful answer is whatever the API sends.     *)
(***************************************************************************)
EXTENDS Integers, Sequences, FiniteSets, TLC

(* ------------------------------ bounds --------------------------------- *)
MaxAttemptsBound == 3
MaxMinWait == 2
MaxMaxWait == 3

(* -------------------------- program constants -------------------------- *)
DefaultMaxAttempts == 3
DefaultMinWait == 1000
DefaultMaxWait == 10000

Calls == {"c1", "c2"}

Statuses == {"pending", "executing", "completed", "failed", "cancelled"}

DEFAULT_CONFIRM_ACTIONS == {"takeoff", "land", "return_home", "stop"}

\* The actions a caller submits in this model: one of the critical actions,
\* one ordinary action, and one string outside DeviceAction (sendCommand's
\* parameter type is erased at run time).
SubmittedActions == {"takeoff", "move_to", "self_destruct"}

Results == {"none", "r1"}

\* Bodies the device API may answer a command request with (cast, unchecked,
\* to DeviceCommand by the client).
Bodies == [status : Statuses, result : Results]

NoCommand == [status |-> "none", result |-> "none"]

NoTarget == "-"

Outcomes == {"ok", "notOk", "timeout"}

NoReturn == [kind |-> "none", val |-> "-", err |-> "-"]

VARIABLES
    maxAttempts, minWait, maxWait,  \* this.config.retry
    op,         \* per call: the public method invoked
    action,     \* per sendCommand call: command.action
    confirm,    \* per sendCommand call: whether the caller's input carries a confirmation
    target,     \* per status/cancel call: the command the commandId names
    pc,         \* per call: where the invocation is suspended
    attempt,    \* per call: fetch's loop counter
    lastError,  \* per call: fetch's lastError
    outcomes,   \* per call: the answers the physical attempts got, in order
    waits,      \* per call: the backoff waits performed, in order
    thrown,     \* per call: the error fetch threw to the public method ("-" while it has not)
    ret,        \* per call: what the invocation returned or threw
    cmd,        \* per sendCommand call: the DeviceCommand object last handed back for its command
    submitted,  \* the sendCommand calls in the order they were made
    delivered,  \* the sendCommand calls in the order the device API accepted their POST /commands
    aborted,    \* per call: whether the caller's own timeout/cancellation signal has fired
    vAction, vAllowed,  \* validateDeviceCommand: its arguments action, allowedActions
    vResult,            \* validateDeviceCommand: its return value
    tpc,        \* streamTelemetry: where the generator is suspended
    conn,       \* streamTelemetry: the underlying connection (response body reader)
    consumer,   \* streamTelemetry: whether the consumer still iterates
    tlines,     \* streamTelemetry: the lines of the current chunk the for-loop has not visited
    tchunks,    \* streamTelemetry: chunks read so far
    tyielded,   \* streamTelemetry: payloads yielded so far
    gPoints,    \* detectStopPoints: its argument points
    gStops,     \* detectStopPoints: its return value
    aPoints,    \* calculateAverageSpeed: its argument points
    aSpeed,     \* calculateAverageSpeed: its return value
    fSent,      \* telemetry framing: the events the device API sends
    fBytes,     \* telemetry framing: the part of the byte stream not read yet
    fYielded,   \* telemetry framing: the payloads streamTelemetry has yielded
    qQuery,     \* executeSpatialQuery: its argument query
    qpc,        \* executeSpatialQuery: where the call is
    qSql,       \* executeSpatialQuery: the statement generateSQL returned
    qExecuted,  \* executeSQL: the statements and bind values it was called with
    qValidated, \* the statement texts validateSQLQuery has accepted in this run
    sSql,       \* validateSQLQuery: its argument sql
    sAllowed,   \* validateSQLQuery: its argument allowedTables
    sResult     \* validateSQLQuery: its return value

vars == <<maxAttempts, minWait, maxWait, op, action, confirm, target, pc,
          attempt, lastError, outcomes, waits, thrown, ret, cmd,
          submitted, delivered, aborted, vAction, vAllowed, vResult,
          tpc, conn, consumer, tlines, tchunks, tyielded, gPoints, gStops,
          aPoints, aSpeed, fSent, fBytes, fYielded,
          qQuery, qpc, qSql, qExecuted, qValidated, sSql, sAllowed, sResult>>

dvars == <<maxAttempts, minWait, maxWait, op, action, confirm, target, pc,
           attempt, lastError, outcomes, waits, thrown, ret, cmd,
           submitted, delivered, aborted>>

tvars == <<tpc, conn, consumer, tlines, tchunks, tyielded>>

gvars == <<gPoints, gStops>>

avars == <<aPoints, aSpeed>>

fvars == <<fSent, fBytes, fYielded>>

qvars == <<qQuery, qpc, qSql, qExecuted, qValidated>>

svars == <<sSql, sAllowed, sResult>>

\* The variables of the pure geometry, framing and query functions.
pvars == <<avars, fvars, qvars, svars>>

vvars == <<vAction, vAllowed, vResult>>

(* ------------------------------ helpers -------------------------------- *)
Min(a, b) == IF a <= b THEN a ELSE b

RECURSIVE Pow2(_)
Pow2(n) == IF n <= 0 THEN 1 ELSE 2 * Pow2(n - 1)

\* A backoff that forgets the cap.
WaitTimeUncapped(k) == minWait * Pow2(k - 1)

\* Math.min(minWait * Math.pow(2, attempt - 1), maxWait)
WaitTime(k) == Min(minWait * Pow2(k - 1), maxWait)

\* A loop test that is off by one.
LoopContinuesOffByOne(k) == k <= maxAttempts + 1

\* the for-loop condition: attempt <= maxAttempts
LoopContinues(k) == k <= maxAttempts

\* if (attempt < maxAttempts) { wait }
ShouldWait(k) == k < maxAttempts

\* if (response.ok) return response
ResponseOk(o) == o = "ok"

\* The error an unsuccessful attempt produces: new Error(`HTTP ...`) for a
\* non-success status, the thrown error (AbortSignal.timeout's TimeoutError)
\* for a transport failure.
ErrorOf(o) == IF o = "notOk" THEN "HttpError" ELSE "TimeoutError"

\* A recorder that keeps the first error instead of the latest.
RecordErrorKeepFirst(prev, o) == IF prev = "null" THEN ErrorOf(o) ELSE prev

\* lastError = ... in both the non-ok branch and the catch branch
RecordError(prev, o) == ErrorOf(o)

\* A lastError kept in a field of the backend, shared by all invocations.
SetLastErrorShared(c, e) == [d \in Calls |-> e]

\* let lastError: a local of the invocation of fetch
SetLastError(c, e) == [lastError EXCEPT ![c] = e]

(* What the public method does once fetch has returned a response.  *)
ReturnOf(o, body) ==
    CASE o = "sendCommand"      -> [kind |-> "return", val |-> "command", err |-> "-"]
      [] o = "getCommandStatus" -> [kind |-> "return", val |-> "command", err |-> "-"]
      [] o = "cancelCommand"    -> [kind |-> "return", val |-> "true", err |-> "-"]
      [] o = "getDevice"        -> [kind |-> "return", val |-> "device", err |-> "-"]

(* What the public method does once fetch has thrown e.  *)
ThrowOf(o, e) ==
    CASE o = "sendCommand"      -> [kind |-> "throw", val |-> "-", err |-> e]
      [] o = "getCommandStatus" -> [kind |-> "return", val |-> "null", err |-> "-"]
      [] o = "cancelCommand"    -> [kind |-> "return", val |-> "false", err |-> "-"]
      [] o = "getDevice"        -> [kind |-> "return", val |-> "null", err |-> "-"]

\* The command object a returned response updates, if any.
CmdAfterReturn(c, body) ==
    CASE op[c] = "sendCommand"      -> [cmd EXCEPT ![c] = body]
      [] op[c] = "getCommandStatus" -> [cmd EXCEPT ![target[c]] = body]
      [] op[c] = "cancelCommand"    -> cmd
      [] op[c] = "getDevice"        -> cmd

(* ----------------------- validateDeviceCommand ------------------------- *)
\* const validActions: DeviceAction[]
validActions ==
    <<"takeoff", "land", "move_to", "return_home", "pause", "resume", "stop",
      "capture_photo", "start_video", "stop_video", "set_altitude", "set_speed",
      "custom">>

\* Array.prototype.includes
Includes(arr, x) == \E i \in 1..Len(arr) : arr[i] = x

\* allowedActions left undefined
NoAllowList == [given |-> FALSE, list |-> {}]

\* A validator that trusts a configured allow-list and consults the
\* enumerated actions only when none is configured.
validateDeviceCommandAllowListFirst(a, allowed) ==
    IF allowed.given
      THEN IF a \in allowed.list
             THEN [valid |-> TRUE, error |-> "-"]
             ELSE [valid |-> FALSE, error |-> "Action not allowed"]
      ELSE IF Includes(validActions, a)
             THEN [valid |-> TRUE, error |-> "-"]
             ELSE [valid |-> FALSE, error |-> "Invalid action"]

validateDeviceCommand(a, allowed) ==
    IF ~Includes(validActions, a)
      THEN [valid |-> FALSE, error |-> "Invalid action"]
      ELSE IF allowed.given /\ a \notin allowed.list
             THEN [valid |-> FALSE, error |-> "Action not allowed"]
             ELSE [valid |-> TRUE, error |-> "-"]

NotValidated == [valid |-> FALSE, error |-> "not called"]

\* The arguments validateDeviceCommand is called with: every enumerated
\* action and two strings outside the enumeration; no allow-list, or one
\* drawn from three entries (one of them outside the enumeration).
ActionInputs == {validActions[i] : i \in 1..Len(validActions)} \cup {"self_destruct", ""}

AllowListInputs ==
    {NoAllowList} \cup
    {[given |-> TRUE, list |-> l] : l \in SUBSET {"takeoff", "move_to", "self_destruct"}}

ValidateIdle ==
    /\ vAction = "-"
    /\ vAllowed = NoAllowList
    /\ vResult = NotValidated

(* --------------------------- streamTelemetry --------------------------- *)
MaxChunks == 3
MaxLinesPerChunk == 2

\* The lines of a chunk, by what the loop does with them: a "data:" line
\* whose rest parses as JSON, a "data:" line whose rest does not, any other
\* line.
LineKinds == {"data", "bad", "other"}

ChunkInputs ==
    UNION {[1..n -> LineKinds] : n \in 1..MaxLinesPerChunk}

\* line.startsWith("data:") and JSON.parse does not throw
Yields(l) == l = "data"

\* The for-loop over lines from the first not yet visited line on: the
\* lines left once it has reached its next yield, <<>> if it yields no more.
RECURSIVE RestAfterYield(_)
RestAfterYield(ls) ==
    IF ls = <<>> THEN <<>>
    ELSE IF Yields(Head(ls)) THEN Tail(ls)
    ELSE RestAfterYield(Tail(ls))

HasYield(ls) == \E i \in 1..Len(ls) : Yields(ls[i])

TelemetryIdle ==
    /\ tpc = "idle"
    /\ conn = "none"
    /\ consumer = "consuming"
    /\ tlines = <<>>
    /\ tchunks = 0
    /\ tyielded = 0

(* --------------------------- detectStopPoints -------------------------- *)
MaxPoints == 4

\* speedThreshold = 0.5 and the speeds, in tenths of a m/s; durationThreshold
\* and the timestamps in seconds.
SpeedThreshold == 5
DurationThreshold == 60

\* point.speed absent
NoSpeed == -1

SpeedInputs == {NoSpeed, 5, 6}

GapInputs == {1, 59, 60}

\* The trajectories detectStopPoints is applied to: up to MaxPoints points,
\* the first at time 0, timestamps increasing by the gaps.
RECURSIVE TimesOf(_)
TimesOf(gaps) ==
    IF gaps = <<>> THEN <<0>>
    ELSE LET before == TimesOf(SubSeq(gaps, 1, Len(gaps) - 1))
         IN Append(before, before[Len(before)] + gaps[Len(gaps)])

PointInputs ==
    {<<>>} \cup
    UNION { { [i \in 1..n |-> [speed |-> sp[i], timestamp |-> TimesOf(gaps)[i]]] :
                sp \in [1..n -> SpeedInputs], gaps \in [1..(n - 1) -> GapInputs] } :
            n \in 1..MaxPoints }

\* point?.speed ?? 0
SpeedOf(p) == IF p.speed = NoSpeed THEN 0 ELSE p.speed

\* The for-loop of detectStopPoints from index i.  Indices are 1-based here,
\* one more than the source's; stopStart = 0 stands for null.
RECURSIVE Scan(_, _, _, _)
Scan(points, i, stopStart, stopPoints) ==
    IF i > Len(points) THEN stopPoints
    ELSE IF SpeedOf(points[i]) <= SpeedThreshold
      THEN Scan(points, i + 1, IF stopStart = 0 THEN i ELSE stopStart, stopPoints)
    ELSE IF stopStart # 0
      THEN Scan(points, i + 1, 0,
                IF points[i - 1].timestamp - points[stopStart].timestamp >= DurationThreshold
                  THEN Append(stopPoints, stopStart) ELSE stopPoints)
    ELSE Scan(points, i + 1, 0, stopPoints)

detectStopPoints(points) == Scan(points, 1, 0, <<>>)

NotDetected == <<-1>>

GeoIdle ==
    /\ gPoints = <<>>
    /\ gStops = NotDetected

(* ------------------------- calculateAverageSpeed ----------------------- *)
MaxTrack == 3

\* Points on one meridian, by their distance in metres from its first point.
PosInputs == {0, 3, 7}

\* new Date(timestamp).getTime(), in milliseconds.
TimeInputs == {0, 1000, 2500}

TrackInputs ==
    UNION { [1..n -> [pos : PosInputs, timestamp : TimeInputs]] : n \in 0..MaxTrack }

Abs(x) == IF x < 0 THEN -x ELSE x

\* The great-circle distance of two points of the meridian.
calculateDistance(point1, point2) == Abs(point2.pos - point1.pos)

RECURSIVE calculateTrajectoryLength(_)
calculateTrajectoryLength(points) ==
    IF Len(points) < 2 THEN 0
    ELSE calculateTrajectoryLength(SubSeq(points, 1, Len(points) - 1))
         + calculateDistance(points[Len(points) - 1], points[Len(points)])

\* A number as the exact quotient num / den; den = 0 is a division by zero.
Quotient(n, d) == [num |-> n, den |-> d]

Zero == Quotient(0, 1)

\* totalDistance / duration with duration = milliseconds / 1000
SpeedOver(points) ==
    Quotient(calculateTrajectoryLength(points) * 1000,
             points[Len(points)].timestamp - points[1].timestamp)

calculateAverageSpeedNoZeroGuard(points) ==
    IF Len(points) < 2 THEN Zero ELSE SpeedOver(points)

calculateAverageSpeed(points) ==
    IF Len(points) < 2 THEN Zero
    ELSE IF points[Len(points)].timestamp - points[1].timestamp = 0 THEN Zero
    ELSE SpeedOver(points)

NotComputed == Quotient(-1, 0)

AvgIdle ==
    /\ aPoints = <<>>
    /\ aSpeed = NotComputed

(* --------------------------- telemetry framing ------------------------- *)
MaxEvents == 2

\* The events of the device API: two payloads and one that is not JSON.
EventInputs == {"e1", "e2", "bad"}

EventSeqs == UNION {[1..n -> EventInputs] : n \in 0..MaxEvents}

\* The byte stream in units small enough to cut an event inside its "data:"
\* prefix and inside its payload: "da", "ta:", the two halves of a JSON
\* payload, text that is not JSON, and the newline.
Unit(u, e) == [u |-> u, e |-> e]

Frame(e) ==
    IF e = "bad"
      THEN <<Unit("da", "-"), Unit("ta:", "-"), Unit("junk", "-"), Unit("nl", "-")>>
      ELSE <<Unit("da", "-"), Unit("ta:", "-"), Unit("open", e), Unit("close", e),
             Unit("nl", "-")>>

RECURSIVE Frames(_)
Frames(events) ==
    IF events = <<>> THEN <<>> ELSE Frame(Head(events)) \o Frames(Tail(events))

\* text.split("\n").filter(Boolean)
RECURSIVE SplitLines(_, _)
SplitLines(text, line) ==
    IF text = <<>> THEN (IF line = <<>> THEN <<>> ELSE <<line>>)
    ELSE IF Head(text).u = "nl"
      THEN (IF line = <<>> THEN <<>> ELSE <<line>>) \o SplitLines(Tail(text), <<>>)
    ELSE SplitLines(Tail(text), Append(line, Head(text)))

\* line.startsWith("data:")
StartsWithData(line) ==
    Len(line) >= 2 /\ line[1].u = "da" /\ line[2].u = "ta:"

\* JSON.parse(line.slice(5)) returns a payload
Parses(line) ==
    /\ Len(line) = 4
    /\ line[3].u = "open"
    /\ line[4].u = "close"
    /\ line[3].e = line[4].e

\* for (const line of lines): the payloads yielded, in order
RECURSIVE YieldsOfLines(_)
YieldsOfLines(lines) ==
    IF lines = <<>> THEN <<>>
    ELSE (IF StartsWithData(Head(lines)) /\ Parses(Head(lines))
            THEN <<Head(lines)[3].e>> ELSE <<>>)
         \o YieldsOfLines(Tail(lines))

YieldsOfChunk(chunk) == YieldsOfLines(SplitLines(chunk, <<>>))

FramingIdle ==
    /\ fSent = <<>>
    /\ fBytes = <<>>
    /\ fYielded = <<>>

(* ------------------------------ generateSQL ---------------------------- *)
\* A statement under construction: its tokens in order, each marked with
\* whether it was copied from the query (user) or written by generateSQL.
Fixed(t) == [tok |-> t, user |-> FALSE]

FromQuery(t) == [tok |-> t, user |-> TRUE]

TextOf(sql) == [i \in 1..Len(sql) |-> sql[i].tok]

\* maxRows = 1000
MaxRows == 1000

NoLimit == -1

NoRange == [start |-> 0, end |-> 0]

NoGeometry == "none"

DayInputs == {1, 2}

RangeInputs == {NoRange} \cup [start : DayInputs, end : DayInputs]

GeometryInputs == {NoGeometry, "Point"}

SelectInputs == {<<>>, <<"id">>, <<"password">>, <<"id", "geom">>}

OrderInputs ==
    {<<>>} \cup {<<o>> : o \in [field : {"timestamp", "password"}, direction : {"asc", "desc"}]}

LimitInputs == {NoLimit, 0, 500, 5000}

QueryInputs ==
    [type : {"bbox", "trajectory"}, timeRange : RangeInputs, geometry : GeometryInputs,
     select : SelectInputs, orderBy : OrderInputs, limit : LimitInputs]

\* '${date.toISOString()}'
toISOString(d) ==
    IF d = 1 THEN "'2024-01-01T00:00:00.000Z'" ELSE "'2024-01-02T00:00:00.000Z'"

\* '${JSON.stringify(geometry)}'
stringify(g) == "'{\"type\":\"Point\",\"coordinates\":[1,2]}'"

toUpperCase(d) == IF d = "asc" THEN "ASC" ELSE "DESC"

\* list.join(", ") of one-token items
RECURSIVE JoinComma(_)
JoinComma(items) ==
    IF Len(items) = 0 THEN <<>>
    ELSE IF Len(items) = 1 THEN <<FromQuery(items[1])>>
    ELSE <<FromQuery(items[1]), Fixed(",")>> \o JoinComma(Tail(items))

SelectPart(query) ==
    IF Len(query.select) > 0 THEN JoinComma(query.select) ELSE <<Fixed("*")>>

RangePart(query) ==
    IF query.timeRange # NoRange
      THEN <<Fixed("AND"), Fixed("timestamp"), Fixed("BETWEEN"),
             FromQuery(toISOString(query.timeRange.start)), Fixed("AND"),
             FromQuery(toISOString(query.timeRange.end))>>
      ELSE <<>>

GeometryPart(query) ==
    IF query.geometry # NoGeometry
      THEN <<Fixed("AND"), Fixed("ST_Within(geom,"), Fixed("ST_GeomFromGeoJSON("),
             FromQuery(stringify(query.geometry)), Fixed("))")>>
      ELSE <<>>

RECURSIVE OrderClauses(_)
OrderClauses(entries) ==
    IF Len(entries) = 0 THEN <<>>
    ELSE <<FromQuery(entries[1].field), FromQuery(toUpperCase(entries[1].direction))>>
         \o (IF Len(entries) > 1 THEN <<Fixed(",")>> ELSE <<>>)
         \o OrderClauses(Tail(entries))

OrderPart(query) ==
    IF Len(query.orderBy) > 0
      THEN <<Fixed("ORDER"), Fixed("BY")>> \o OrderClauses(query.orderBy)
      ELSE <<>>

\* if (query.limit): undefined and 0 are falsy
LimitPart(query) ==
    IF query.limit # NoLimit /\ query.limit # 0
      THEN <<Fixed("LIMIT"), FromQuery(ToString(query.limit))>>
      ELSE <<>>

generateSQL(query) ==
    <<Fixed("SELECT")>> \o SelectPart(query)
    \o <<Fixed("FROM"), Fixed("spatial_data"), Fixed("WHERE"), Fixed("1=1")>>
    \o RangePart(query) \o GeometryPart(query) \o OrderPart(query) \o LimitPart(query)

NoQuery ==
    [type |-> "none", timeRange |-> NoRange, geometry |-> NoGeometry,
     select |-> <<>>, orderBy |-> <<>>, limit |-> NoLimit]

CompileIdle ==
    /\ qQuery = NoQuery
    /\ qpc = "idle"
    /\ qSql = <<>>
    /\ qExecuted = <<>>
    /\ qValidated = {}

(* ---------------------------- validateSQLQuery ------------------------- *)
\* A statement text is the sequence of its tokens, in the order written and
\* separated by whitespace where two words meet.
MaxClauses == 1

DEFAULT_ALLOWED_TABLES ==
    {"drone_trajectory", "device_status", "mission_log", "geo_fence",
     "telemetry_data", "spatial_index"}

\* String.prototype.toLowerCase and the /i flag, on the tokens in use.
ToLowerCase(tok) ==
    CASE tok = "SELECT" -> "select"
      [] tok = "FROM" -> "from"
      [] tok = "JOIN" -> "join"
      [] tok = "WHERE" -> "where"
      [] tok = "AND" -> "and"
      [] tok = "OR" -> "or"
      [] tok = "IN" -> "in"
      [] tok = "ALL" -> "all"
      [] tok = "UNION" -> "union"
      [] tok = "DROP" -> "drop"
      [] tok = "DELETE" -> "delete"
      [] tok = "UPDATE" -> "update"
      [] tok = "INSERT" -> "insert"
      [] tok = "TRUNCATE" -> "truncate"
      [] tok = "ALTER" -> "alter"
      [] tok = "TABLE" -> "table"
      [] tok = "BETWEEN" -> "between"
      [] tok = "ORDER" -> "order"
      [] tok = "BY" -> "by"
      [] tok = "LIMIT" -> "limit"
      [] tok = "ASC" -> "asc"
      [] tok = "DESC" -> "desc"
      [] tok = "Geo_Fence" -> "geo_fence"
      [] OTHER -> tok

\* The tokens that do not begin with a word character (\w).
NonWordTokens ==
    {";", ",", "*", "(", ")", "=", "'", "'1'", "'1", "\"secrets\"", "))",
     "'2024-01-01T00:00:00.000Z'", "'2024-01-02T00:00:00.000Z'",
     "'{\"type\":\"Point\",\"coordinates\":[1,2]}'"}

StartsWithWord(tok) == tok \notin NonWordTokens

\* /;\s*verb\s+/i : the separator, the verb, and whitespace after it.
StackedAt(sql, i, verb) ==
    /\ i + 2 <= Len(sql)
    /\ sql[i] = ";"
    /\ ToLowerCase(sql[i + 1]) = verb

\* /'\s*or\s+'1'\s*=\s*'1/i
TautologyAt(sql, i) ==
    /\ i + 4 <= Len(sql)
    /\ sql[i] = "'"
    /\ ToLowerCase(sql[i + 1]) = "or"
    /\ sql[i + 2] = "'1'"
    /\ sql[i + 3] = "="
    /\ sql[i + 4] \in {"'1'", "'1"}

\* /union\s+select/i
UnionSelectAt(sql, i) ==
    /\ i + 1 <= Len(sql)
    /\ ToLowerCase(sql[i]) = "union"
    /\ ToLowerCase(sql[i + 1]) = "select"

\* dangerousPatterns, in the order of the array, each by its source.
dangerousPatterns ==
    <<"; drop", "; delete", "; update", "; insert", "; truncate", "; alter",
      "' or '1'='1", "\" or \"1\"=\"1", "union select">>

StackedVerbs == <<"drop", "delete", "update", "insert", "truncate", "alter">>

\* pattern.test(sql) for the k-th pattern.  No token in use carries a double
\* quote followed by OR, so the eighth pattern matches none of the statements.
PatternTest(k, sql) ==
    \E i \in 1..Len(sql) :
        CASE k <= 6 -> StackedAt(sql, i, StackedVerbs[k])
          [] k = 7 -> TautologyAt(sql, i)
          [] k = 8 -> FALSE
          [] OTHER -> UnionSelectAt(sql, i)

\* The matches of /\bfrom\s+(\w+)/gi : the positions of "from" followed by a
\* token that begins with a word character.
FromMatches(sql) ==
    {i \in 1..Len(sql) :
        /\ ToLowerCase(sql[i]) = "from"
        /\ i + 1 <= Len(sql)
        /\ StartsWithWord(sql[i + 1])}

SetMin(S) == CHOOSE x \in S : \A y \in S : x <= y

Accepted == [valid |-> TRUE, kind |-> "-", what |-> "-"]

Rejected(k, w) == [valid |-> FALSE, kind |-> k, what |-> w]

\* The while loop over the matches: the first table that is not allowed.
TableCheck(sql, allowedTables) ==
    LET bad == {i \in FromMatches(sql) : ToLowerCase(sql[i + 1]) \notin allowedTables}
    IN IF bad = {} THEN Accepted
       ELSE Rejected("table", ToLowerCase(sql[SetMin(bad) + 1]))

validateSQLQuery(sql, allowedTables) ==
    LET hits == {k \in 1..Len(dangerousPatterns) : PatternTest(k, sql)}
    IN IF hits # {} THEN Rejected("pattern", dangerousPatterns[SetMin(hits)])
       ELSE TableCheck(sql, allowedTables)

\* The statements handed to validateSQLQuery: a head statement followed by
\* up to MaxClauses further clauses.
TableInputs == {"drone_trajectory", "Geo_Fence", "secrets", "\"secrets\""}

HeadInputs ==
    {<<"SELECT", "*", "FROM", t>> : t \in TableInputs}
    \cup {<<"select", "*", "from", t>> : t \in TableInputs}
    \cup {<<"DELETE", "FROM", t>> : t \in TableInputs}

ClauseInputs ==
    {<<"JOIN", t>> : t \in TableInputs}
    \cup {<<",", t>> : t \in TableInputs}
    \cup {<<";", "DROP", "TABLE", t>> : t \in TableInputs}
    \cup {<<";", "SELECT", "*", "FROM", t>> : t \in TableInputs}
    \cup {<<"UNION", "SELECT", "*", "FROM", t>> : t \in TableInputs}
    \cup {<<"UNION", "ALL", "SELECT", "*", "FROM", t>> : t \in TableInputs}
    \cup {<<"WHERE", "id", "IN", "(", "SELECT", "id", "FROM", t, ")">> : t \in TableInputs}
    \cup {<<"WHERE", "id", "=", "'", "'", "OR", "'1'", "=", "'1'">>,
          <<"WHERE", "id", "=", "1", "OR", "1=1">>,
          <<";", "DROP">>}

RECURSIVE Flatten(_)
Flatten(parts) ==
    IF parts = <<>> THEN <<>> ELSE Head(parts) \o Flatten(Tail(parts))

StatementInputs ==
    UNION { {h \o Flatten(cs) : h \in HeadInputs, cs \in [1..n -> ClauseInputs]} :
            n \in 0..MaxClauses }

AllowedInputs == {DEFAULT_ALLOWED_TABLES, {"secrets"}}

NotChecked == [valid |-> FALSE, kind |-> "not called", what |-> "-"]

SqlIdle ==
    /\ sSql = <<>>
    /\ sAllowed = {}
    /\ sResult = NotChecked

PureIdle ==
    /\ AvgIdle
    /\ FramingIdle
    /\ CompileIdle
    /\ SqlIdle

(* ------------------------------- Init ---------------------------------- *)
RetryConfigs ==
    {<<DefaultMaxAttempts, DefaultMinWait, DefaultMaxWait>>}
    \cup ((0..MaxAttemptsBound) \X (1..MaxMinWait) \X (1..MaxMaxWait))

DeviceInit ==
    /\ \E cfg \in RetryConfigs :
        /\ maxAttempts = cfg[1]
        /\ minWait = cfg[2]
        /\ maxWait = cfg[3]
    /\ op = [c \in Calls |-> "none"]
    /\ action = [c \in Calls |-> "-"]
    /\ confirm = [c \in Calls |-> FALSE]
    /\ target = [c \in Calls |-> NoTarget]
    /\ pc = [c \in Calls |-> "idle"]
    /\ attempt = [c \in Calls |-> 0]
    /\ lastError = [c \in Calls |-> "null"]
    /\ outcomes = [c \in Calls |-> <<>>]
    /\ waits = [c \in Calls |-> <<>>]
    /\ thrown = [c \in Calls |-> "-"]
    /\ ret = [c \in Calls |-> NoReturn]
    /\ cmd = [c \in Calls |-> NoCommand]
    /\ submitted = <<>>
    /\ delivered = <<>>
    /\ aborted = [c \in Calls |-> FALSE]

Init ==
    /\ DeviceInit
    /\ ValidateIdle
    /\ TelemetryIdle
    /\ GeoIdle
    /\ PureIdle

(* ------------------------------ actions -------------------------------- *)
\* Entry of fetch for call c whose method and inputs are o, a, f, t:
\* lastError = null, attempt = 1, then the first loop test.
Enter(c, o, a, f, t) ==
    /\ pc[c] = "idle"
    /\ op' = [op EXCEPT ![c] = o]
    /\ action' = [action EXCEPT ![c] = a]
    /\ confirm' = [confirm EXCEPT ![c] = f]
    /\ target' = [target EXCEPT ![c] = t]
    /\ attempt' = [attempt EXCEPT ![c] = 1]
    /\ lastError' = SetLastError(c, "null")
    /\ IF LoopContinues(1)
         THEN /\ pc' = [pc EXCEPT ![c] = "request"]
              /\ UNCHANGED <<thrown, ret>>
         ELSE /\ pc' = [pc EXCEPT ![c] = "done"]
              /\ thrown' = [thrown EXCEPT ![c] = "null"]
              /\ ret' = [ret EXCEPT ![c] = ThrowOf(o, "null")]
    /\ UNCHANGED <<maxAttempts, minWait, maxWait, outcomes, waits, cmd>>

\* The submissions a caller makes: action and whether it carries a
\* confirmation (the code never reads the confirmation, so it is varied only
\* for the action that would need one).
Submissions ==
    {s \in SubmittedActions \X BOOLEAN : s[2] => s[1] \in DEFAULT_CONFIRM_ACTIONS}

SendCommand(c) ==
    \E s \in Submissions :
        Enter(c, "sendCommand", s[1], s[2], NoTarget)

GetCommandStatus(c) ==
    \E t \in Calls :
        /\ cmd[t] # NoCommand
        /\ Enter(c, "getCommandStatus", "-", FALSE, t)

CancelCommand(c) ==
    \E t \in Calls :
        /\ cmd[t] # NoCommand
        /\ Enter(c, "cancelCommand", "-", FALSE, t)

GetDevice(c) == Enter(c, "getDevice", "-", FALSE, NoTarget)

\* The awaited physical request of call c is answered with a success status.
RespondOk(c) ==
    /\ pc[c] = "request"
    /\ \E o \in Outcomes, body \in Bodies :
        /\ ResponseOk(o)
        /\ outcomes' = [outcomes EXCEPT ![c] = Append(@, o)]
        /\ pc' = [pc EXCEPT ![c] = "done"]
        /\ ret' = [ret EXCEPT ![c] = ReturnOf(op[c], body)]
        /\ cmd' = CmdAfterReturn(c, body)
    /\ UNCHANGED <<maxAttempts, minWait, maxWait, op, action, confirm, target,
                   attempt, lastError, waits, thrown>>

\* The awaited physical request of call c is answered with a non-success
\* status or rejects (timeout); the error is recorded, and fetch either
\* starts the backoff wait or, the loop being over, throws lastError.
RespondFail(c) ==
    /\ pc[c] = "request"
    /\ \E o \in Outcomes :
        /\ ~ResponseOk(o)
        /\ outcomes' = [outcomes EXCEPT ![c] = Append(@, o)]
        /\ lastError' = SetLastError(c, RecordError(lastError[c], o))
        /\ IF ShouldWait(attempt[c])
             THEN /\ waits' = [waits EXCEPT ![c] = Append(@, WaitTime(attempt[c]))]
                  /\ pc' = [pc EXCEPT ![c] = "wait"]
                  /\ UNCHANGED <<attempt, thrown, ret>>
             ELSE /\ attempt' = [attempt EXCEPT ![c] = @ + 1]
                  /\ IF LoopContinues(attempt[c] + 1)
                       THEN /\ pc' = [pc EXCEPT ![c] = "request"]
                            /\ UNCHANGED <<thrown, ret>>
                       ELSE /\ pc' = [pc EXCEPT ![c] = "done"]
                            /\ thrown' = [thrown EXCEPT ![c] = lastError'[c]]
                            /\ ret' = [ret EXCEPT ![c] = ThrowOf(op[c], lastError'[c])]
                  /\ UNCHANGED waits
    /\ UNCHANGED <<maxAttempts, minWait, maxWait, op, action, confirm, target, cmd>>

\* The backoff timer of call c fires: attempt++, loop test, next attempt.
WaitDone(c) ==
    /\ pc[c] = "wait"
    /\ attempt' = [attempt EXCEPT ![c] = @ + 1]
    /\ IF LoopContinues(attempt[c] + 1)
         THEN /\ pc' = [pc EXCEPT ![c] = "request"]
              /\ UNCHANGED <<thrown, ret>>
         ELSE /\ pc' = [pc EXCEPT ![c] = "done"]
              /\ thrown' = [thrown EXCEPT ![c] = lastError[c]]
              /\ ret' = [ret EXCEPT ![c] = ThrowOf(op[c], lastError[c])]
    /\ UNCHANGED <<maxAttempts, minWait, maxWait, op, action, confirm, target,
                   lastError, outcomes, waits, cmd>>

\* The caller's own timeout/cancellation signal fires while call c is in
\* flight.  No public method takes a signal, and fetch sets the request's
\* signal to AbortSignal.timeout(config.timeout) after spreading the options,
\* so nothing in the invocation reacts.
Abort(c) ==
    /\ pc[c] \in {"request", "wait"}
    /\ ~aborted[c]
    /\ aborted' = [aborted EXCEPT ![c] = TRUE]
    /\ UNCHANGED <<maxAttempts, minWait, maxWait, op, action, confirm, target, pc,
                   attempt, lastError, outcomes, waits, thrown, ret, cmd,
                   submitted, delivered>>
    /\ UNCHANGED <<vvars, tvars, gvars, pvars>>

\* One step of invocation c.
Step(c) ==
    \/ SendCommand(c)
    \/ GetCommandStatus(c)
    \/ CancelCommand(c)
    \/ GetDevice(c)
    \/ RespondOk(c)
    \/ RespondFail(c)
    \/ WaitDone(c)

Next ==
    /\ \E c \in Calls : Step(c)
    /\ UNCHANGED <<submitted, delivered, aborted>>
    /\ UNCHANGED <<vvars, tvars, gvars, pvars>>

\* The logs of submissions and deliveries: a sendCommand call is submitted
\* when it is made and delivered when its POST /commands gets a success status.
OrderLog(c) ==
    /\ submitted' = (IF pc[c] = "idle" /\ op'[c] = "sendCommand"
                       THEN Append(submitted, c) ELSE submitted)
    /\ delivered' = (IF op[c] = "sendCommand" /\ Len(outcomes'[c]) > Len(outcomes[c])
                          /\ ResponseOk(outcomes'[c][Len(outcomes'[c])])
                       THEN Append(delivered, c) ELSE delivered)

OrderNext ==
    /\ \E c \in Calls : Step(c) /\ OrderLog(c)
    /\ UNCHANGED aborted
    /\ UNCHANGED <<vvars, tvars, gvars, pvars>>

Spec == Init /\ [][Next]_vars

\* The event loop delivers every settled request and every expired timer:
\* each physical attempt responds or hits its timeout, each backoff timer fires.
\* The backend as constructed without a retry option.
DefaultInit ==
    /\ Init
    /\ maxAttempts = DefaultMaxAttempts
    /\ minWait = DefaultMinWait
    /\ maxWait = DefaultMaxWait

\* The backend under its default configuration, with the order of
\* submissions and deliveries of its commands logged.
OrderSpec == DefaultInit /\ [][OrderNext]_vars

AbortInit == DefaultInit

AbortNext == Next \/ \E c \in Calls : Abort(c)

\* The backend under its default configuration, with callers whose own
\* timeout/cancellation signal may fire at any time.
AbortSpec == AbortInit /\ [][AbortNext]_vars

\* No device call is in progress; the backend has its default configuration.
DeviceIdle ==
    /\ DeviceInit
    /\ maxAttempts = DefaultMaxAttempts
    /\ minWait = DefaultMinWait
    /\ maxWait = DefaultMaxWait

(* validateDeviceCommand applied to each of its inputs. *)
ValidateInit ==
    /\ DeviceIdle
    /\ TelemetryIdle
    /\ GeoIdle
    /\ PureIdle
    /\ vAction \in ActionInputs
    /\ vAllowed \in AllowListInputs
    /\ vResult = NotValidated

Validate ==
    /\ vResult = NotValidated
    /\ vResult' = validateDeviceCommand(vAction, vAllowed)
    /\ UNCHANGED <<vAction, vAllowed>>
    /\ UNCHANGED <<dvars, tvars, gvars, pvars>>

ValidateNext == Validate

ValidateSpec == ValidateInit /\ [][ValidateNext]_vars

(* streamTelemetry consumed by one for-await loop. *)
TelemetryInit ==
    /\ DeviceIdle
    /\ ValidateIdle
    /\ GeoIdle
    /\ PureIdle
    /\ TelemetryIdle

\* The consumer's first next(): the generator starts and awaits fetch.
StreamStart ==
    /\ tpc = "idle"
    /\ tpc' = "connecting"
    /\ UNCHANGED <<conn, consumer, tlines, tchunks, tyielded>>

\* fetch resolves with a readable body: getReader(), then await reader.read().
StreamConnected ==
    /\ tpc = "connecting"
    /\ tpc' = "reading"
    /\ conn' = "open"
    /\ UNCHANGED <<consumer, tlines, tchunks, tyielded>>

\* fetch rejects, or the response has no body ("Failed to get telemetry stream").
StreamConnectFails ==
    /\ tpc = "connecting"
    /\ tpc' = "failed"
    /\ UNCHANGED <<conn, consumer, tlines, tchunks, tyielded>>

\* reader.read() resolves with a chunk: decode, split, filter, and run the
\* for-loop up to its first yield, or through to the next read.
ReadChunk ==
    /\ tpc = "reading"
    /\ tchunks < MaxChunks
    /\ \E ls \in ChunkInputs :
        /\ tchunks' = tchunks + 1
        /\ tlines' = RestAfterYield(ls)
        /\ IF HasYield(ls)
             THEN tpc' = "yielding" /\ tyielded' = tyielded + 1
             ELSE tpc' = "reading" /\ tyielded' = tyielded
    /\ UNCHANGED <<conn, consumer>>

\* The consumer takes the payload and asks for the next: the for-loop goes on.
ConsumerNext ==
    /\ tpc = "yielding"
    /\ consumer = "consuming"
    /\ tlines' = RestAfterYield(tlines)
    /\ IF HasYield(tlines)
         THEN tpc' = "yielding" /\ tyielded' = tyielded + 1
         ELSE tpc' = "reading" /\ tyielded' = tyielded
    /\ UNCHANGED <<conn, consumer, tchunks>>

\* The device API ends the stream: read() resolves done, the loop breaks.
ReadDone ==
    /\ tpc = "reading"
    /\ tpc' = "ended"
    /\ conn' = "closed"
    /\ UNCHANGED <<consumer, tlines, tchunks, tyielded>>

\* The connection breaks: read() rejects and the generator throws.
ReadFails ==
    /\ tpc = "reading"
    /\ tpc' = "failed"
    /\ conn' = "closed"
    /\ UNCHANGED <<consumer, tlines, tchunks, tyielded>>

\* The consumer leaves its loop: return() completes the generator at the
\* yield it is suspended on.  The generator has no finally block and never
\* calls reader.cancel(), so the reader is left as it is.
ConsumerStops ==
    /\ tpc = "yielding"
    /\ consumer = "consuming"
    /\ consumer' = "stopped"
    /\ tpc' = "ended"
    /\ UNCHANGED <<conn, tlines, tchunks, tyielded>>

TelemetryNext ==
    /\ \/ StreamStart
       \/ StreamConnected
       \/ StreamConnectFails
       \/ ReadChunk
       \/ ConsumerNext
       \/ ReadDone
       \/ ReadFails
       \/ ConsumerStops
    /\ UNCHANGED <<dvars, vvars, gvars, pvars>>

TelemetrySpec == TelemetryInit /\ [][TelemetryNext]_vars

(* detectStopPoints(points, 0.5, 60) applied to each of its inputs. *)
GeoInit ==
    /\ DeviceIdle
    /\ ValidateIdle
    /\ TelemetryIdle
    /\ PureIdle
    /\ gPoints \in PointInputs
    /\ gStops = NotDetected

DetectStops ==
    /\ gStops = NotDetected
    /\ gStops' = detectStopPoints(gPoints)
    /\ UNCHANGED gPoints
    /\ UNCHANGED <<dvars, vvars, tvars, pvars>>

GeoNext == DetectStops

GeoSpec == GeoInit /\ [][GeoNext]_vars

(* calculateAverageSpeed applied to each of its inputs. *)
AvgInit ==
    /\ DeviceIdle
    /\ ValidateIdle
    /\ TelemetryIdle
    /\ GeoIdle
    /\ FramingIdle
    /\ CompileIdle
    /\ SqlIdle
    /\ aPoints \in TrackInputs
    /\ aSpeed = NotComputed

AverageSpeed ==
    /\ aSpeed = NotComputed
    /\ aSpeed' = calculateAverageSpeed(aPoints)
    /\ UNCHANGED aPoints
    /\ UNCHANGED <<dvars, vvars, tvars, gvars, fvars, qvars, svars>>

AvgNext == AverageSpeed

AvgSpec == AvgInit /\ [][AvgNext]_vars

(* streamTelemetry reading a byte stream cut into chunks at any places. *)
FramingInit ==
    /\ DeviceIdle
    /\ ValidateIdle
    /\ TelemetryIdle
    /\ GeoIdle
    /\ AvgIdle
    /\ CompileIdle
    /\ SqlIdle
    /\ fSent \in EventSeqs
    /\ fBytes = Frames(fSent)
    /\ fYielded = <<>>

\* One turn of the while loop: reader.read() returns the next k units, and
\* the consumer takes every payload the chunk yields.
ReadBytes ==
    /\ fBytes # <<>>
    /\ \E k \in 1..Len(fBytes) :
        /\ fYielded' = fYielded \o YieldsOfChunk(SubSeq(fBytes, 1, k))
        /\ fBytes' = SubSeq(fBytes, k + 1, Len(fBytes))
    /\ UNCHANGED fSent
    /\ UNCHANGED <<dvars, vvars, tvars, gvars, avars, qvars, svars>>

FramingNext == ReadBytes

FramingSpec == FramingInit /\ [][FramingNext]_vars

(* executeSpatialQuery called with each query. *)
CompileInit ==
    /\ DeviceIdle
    /\ ValidateIdle
    /\ TelemetryIdle
    /\ GeoIdle
    /\ AvgIdle
    /\ FramingIdle
    /\ SqlIdle
    /\ qQuery \in QueryInputs
    /\ qpc = "idle"
    /\ qSql = <<>>
    /\ qExecuted = <<>>
    /\ qValidated = {}

\* const sql = this.generateSQL(query)
GenerateSQL ==
    /\ qpc = "idle"
    /\ qSql' = generateSQL(qQuery)
    /\ qpc' = "generated"
    /\ UNCHANGED <<qQuery, qExecuted, qValidated>>

\* const rows = await this.executeSQL(sql): the statement goes to the store
\* with no bind values.
ExecuteSQL ==
    /\ qpc = "generated"
    /\ qExecuted' = Append(qExecuted, [sql |-> TextOf(qSql), params |-> <<>>])
    /\ qpc' = "executed"
    /\ UNCHANGED <<qQuery, qSql, qValidated>>

\* return { queryId, sql, ... }
ReturnResult ==
    /\ qpc = "executed"
    /\ qpc' = "done"
    /\ UNCHANGED <<qQuery, qSql, qExecuted, qValidated>>

CompileNext ==
    /\ \/ GenerateSQL
       \/ ExecuteSQL
       \/ ReturnResult
    /\ UNCHANGED <<dvars, vvars, tvars, gvars, avars, fvars, svars>>

CompileSpec == CompileInit /\ [][CompileNext]_vars

(* validateSQLQuery applied to each of its inputs. *)
SqlInit ==
    /\ DeviceIdle
    /\ ValidateIdle
    /\ TelemetryIdle
    /\ GeoIdle
    /\ AvgIdle
    /\ FramingIdle
    /\ CompileIdle
    /\ sSql \in StatementInputs
    /\ sAllowed \in AllowedInputs
    /\ sResult = NotChecked

ValidateSQL ==
    /\ sResult = NotChecked
    /\ sResult' = validateSQLQuery(sSql, sAllowed)
    /\ UNCHANGED <<sSql, sAllowed>>
    /\ UNCHANGED <<dvars, vvars, tvars, gvars, avars, fvars, qvars>>

SqlNext == ValidateSQL

SqlSpec == SqlInit /\ [][SqlNext]_vars

FairSpec ==
    Spec /\ \A c \in Calls : WF_vars(RespondOk(c) \/ RespondFail(c)) /\ WF_vars(WaitDone(c))

(* ======================= retry executor (fetch) ======================== *)
Started(c) == op[c] # "none"

\* Physical attempts started so far by call c.
AttemptsMade(c) == Len(outcomes[c]) + (IF pc[c] = "request" THEN 1 ELSE 0)

Succeeded(c) == \E i \in 1..Len(outcomes[c]) : outcomes[c][i] = "ok"

FirstOk(c) == CHOOSE i \in 1..Len(outcomes[c]) :
                 /\ outcomes[c][i] = "ok"
                 /\ \A j \in 1..(i - 1) : outcomes[c][j] # "ok"

\* C1: with maxAttempts = N >= 1, a finished logical request made as many
\* physical attempts as the index of its first successful attempt, or exactly
\* N when none succeeded; no attempt follows a successful one and never more
\* than N attempts are made.
C1_AttemptCount ==
    \A c \in Calls :
        (Started(c) /\ maxAttempts >= 1) =>
            /\ AttemptsMade(c) <= maxAttempts
            /\ \A i \in 1..Len(outcomes[c]) :
                   outcomes[c][i] = "ok" => (i = Len(outcomes[c]) /\ pc[c] = "done")
            /\ pc[c] = "done" =>
                   Len(outcomes[c]) = (IF Succeeded(c) THEN FirstOk(c) ELSE maxAttempts)

\* A request that succeeded on its second attempt of three, next to one that
\* used up all three.
C1_Witness ==
    /\ maxAttempts = 3
    /\ pc["c1"] = "done" /\ Len(outcomes["c1"]) = 2 /\ outcomes["c1"][2] = "ok"
    /\ pc["c2"] = "done" /\ Len(outcomes["c2"]) = 3 /\ ~Succeeded("c2")

\* The attempts of call c that failed and were not the last one allowed.
RetriedAttempts(c) ==
    {k \in 1..Len(outcomes[c]) : outcomes[c][k] # "ok" /\ k < maxAttempts}

\* C2: the wait after failed attempt k (k < maxAttempts) is exactly
\* min(minWait * 2^(k-1), maxWait); waits never decrease and never exceed
\* maxWait; there is no wait after the final attempt or after a success.
C2_BackoffWaits ==
    \A c \in Calls :
        /\ Len(waits[c]) = Cardinality(RetriedAttempts(c))
        /\ \A k \in 1..Len(waits[c]) :
            /\ k \in RetriedAttempts(c)
            /\ waits[c][k] = (IF minWait * (2 ^ (k - 1)) <= maxWait
                                THEN minWait * (2 ^ (k - 1)) ELSE maxWait)
            /\ waits[c][k] <= maxWait
            /\ k > 1 => waits[c][k - 1] <= waits[c][k]
        /\ pc[c] = "wait" => (Len(outcomes[c]) = Len(waits[c]) /\ ~Succeeded(c))

\* A request whose second wait was cut down to maxWait.
C2_Witness ==
    \E c \in Calls :
        /\ pc[c] = "done"
        /\ Len(waits[c]) = 2
        /\ waits[c][1] = minWait /\ minWait < maxWait
        /\ waits[c][2] = maxWait /\ minWait * 2 > maxWait

\* C3: every failed attempt's error is recorded before the next attempt (or
\* the wait before it) starts, and when all attempts failed the error fetch
\* throws is the error of the last attempt made.
C3_LastErrorSurfaced ==
    \A c \in Calls :
        LET n == Len(outcomes[c]) IN
        /\ (n >= 1 /\ outcomes[c][n] # "ok") => lastError[c] = ErrorOf(outcomes[c][n])
        /\ (pc[c] = "done" /\ n >= 1 /\ ~Succeeded(c)) => thrown[c] = ErrorOf(outcomes[c][n])
        /\ thrown[c] # "-" => (pc[c] = "done" /\ ~Succeeded(c))

\* All three attempts failed, the first with a non-success status and the
\* last with a timeout, and the timeout is what was thrown.
C3_Witness ==
    \E c \in Calls :
        /\ pc[c] = "done" /\ Len(outcomes[c]) = 3
        /\ outcomes[c][1] = "notOk" /\ outcomes[c][3] = "timeout"
        /\ thrown[c] = "TimeoutError"

(* ================== command lifecycle (public methods) ================= *)
Terminal == {"completed", "failed", "cancelled"}

LifecycleEdges ==
    {<<"pending", "executing">>, <<"executing", "completed">>,
     <<"executing", "failed">>, <<"pending", "cancelled">>,
     <<"executing", "cancelled">>}

\* Physical requests of call c that have reached the device API.
RequestsIssued(c) == AttemptsMade(c)

\* C4: a command whose every dispatch attempt times out with maxAttempts = 3
\* ends in status failed with a DeviceUnreachableError, after exactly 3
\* recorded attempts.
C4_TimeoutsEndFailed ==
    \A c \in Calls :
        ( /\ op[c] = "sendCommand" /\ pc[c] = "done"
          /\ maxAttempts = 3
          /\ \A i \in 1..Len(outcomes[c]) : outcomes[c][i] = "timeout" ) =>
            /\ Len(outcomes[c]) = 3
            /\ cmd[c].status = "failed"
            /\ ret[c].kind = "throw" /\ ret[c].err = "DeviceUnreachableError"

\* C5: a command whose action requires confirmation, submitted without the
\* confirmation flag, fails with ConfirmationRequiredError and no request
\* reaches the device API; with the flag it proceeds to executing.
C5_ConfirmationGate ==
    \A c \in Calls :
        ( /\ op[c] = "sendCommand" /\ action[c] \in DEFAULT_CONFIRM_ACTIONS
          /\ maxAttempts >= 1 ) =>
            IF confirm[c]
              THEN pc[c] = "request" => cmd[c].status = "executing"
              ELSE /\ RequestsIssued(c) = 0
                   /\ pc[c] = "done"
                   /\ ret[c].kind = "throw" /\ ret[c].err = "ConfirmationRequiredError"

\* C6: every change of a command's status follows one of the five lifecycle
\* edges; in particular no command leaves completed, failed or cancelled.
C6_LifecycleEdgesOnly ==
    [][ \A k \in Calls :
          (cmd[k] # NoCommand /\ cmd'[k].status # cmd[k].status) =>
              <<cmd[k].status, cmd'[k].status>> \in LifecycleEdges ]_vars

\* C7: cancel on a command already completed fails with
\* InvalidTransitionError and leaves its status and stored result unchanged.
C7_CancelCompletedRejected ==
    \A c \in Calls :
        ( /\ op[c] = "cancelCommand" /\ pc[c] = "done"
          /\ maxAttempts >= 1
          /\ cmd[target[c]].status = "completed" ) =>
            /\ ret[c].kind = "throw"
            /\ ret[c].err = "InvalidTransitionError"

\* C8: cancel on a pending or executing command issues a cancel request and
\* leaves the command cancelled, whether or not any cancel attempt succeeded.
C8_CancelMarksCancelled ==
    \A c \in Calls :
        (op[c] = "cancelCommand" /\ pc[c] = "done" /\ maxAttempts >= 1) =>
            /\ Len(outcomes[c]) >= 1
            /\ cmd[target[c]].status \notin {"pending", "executing"}

\* C9: an accepted command is executing before its network request is sent,
\* is completed (with the response body as result) after a successful
\* response, and is never left without a recorded outcome.
C9_DispatchRecordsOutcome ==
    \A c \in Calls :
        (op[c] = "sendCommand" /\ maxAttempts >= 1) =>
            /\ pc[c] \in {"request", "wait"} => cmd[c].status = "executing"
            /\ (pc[c] = "done" /\ ret[c].kind = "return") => cmd[c].status = "completed"
            /\ pc[c] = "done" => cmd[c] # NoCommand

\* C10: no dispatched command is left short of a terminal status on failure:
\* once its dispatch has ended without a successful attempt, the command is
\* completed, failed or cancelled.
C10_DispatchEndsTerminal ==
    \A c \in Calls :
        ( /\ op[c] = "sendCommand" /\ pc[c] = "done"
          /\ maxAttempts >= 1 /\ ~Succeeded(c) ) =>
            cmd[c].status \in Terminal

\* Every invocation settles: fetch's loop is bounded by maxAttempts, each
\* attempt by its timeout and each wait by maxWait.  (This is the part of
\* C10 that the retry executor does provide.)
FetchTerminates == \A c \in Calls : (op[c] # "none") ~> (pc[c] = "done")

\* C11: a command status query answers from the last-known state of the
\* command: it performs no network request and no retry wait.
C11_StatusQueryIsLocal ==
    \A c \in Calls :
        (op[c] = "getCommandStatus" /\ maxAttempts >= 1) =>
            /\ RequestsIssued(c) = 0
            /\ waits[c] = <<>>
            /\ pc[c] = "done" /\ ret[c].val = "command"

(* ============================ concurrency ============================== *)
\* The position of call c in the log s.
PosIn(s, c) == CHOOSE i \in 1..Len(s) : s[i] = c

\* C12: commands (all submitted to the same device here) are delivered to
\* the device API in the order they were submitted, whatever the attempts'
\* failures, retries and backoff waits.
C12_DeliveredInSubmissionOrder ==
    \A i, j \in 1..Len(delivered) :
        i < j => PosIn(submitted, delivered[i]) < PosIn(submitted, delivered[j])

\* The failed attempts of call c, by index.
FailedAttempts(c) == {i \in 1..Len(outcomes[c]) : outcomes[c][i] # "ok"}

\* The error of the latest failed attempt of call c, "null" if none failed.
OwnLastError(c) ==
    IF FailedAttempts(c) = {} THEN "null"
    ELSE ErrorOf(outcomes[c][CHOOSE i \in FailedAttempts(c) :
                                 \A j \in FailedAttempts(c) : j <= i])

\* C13: concurrent requests do not affect each other: the attempt counter,
\* the recorded last error and the outcome of every started request are
\* functions of the answers to that request's own attempts, whatever the
\* other request is doing.
C13_RequestsIndependent ==
    \A c \in Calls :
        Started(c) =>
            /\ lastError[c] = OwnLastError(c)
            /\ attempt[c] = Len(outcomes[c]) +
                   (IF pc[c] = "request" \/ (pc[c] = "done" /\ ~Succeeded(c)) THEN 1 ELSE 0)
            /\ pc[c] = "done" =>
                   /\ thrown[c] = (IF Succeeded(c) THEN "-" ELSE OwnLastError(c))
                   /\ ret[c] = (IF Succeeded(c)
                                  THEN ReturnOf(op[c], cmd[c])
                                  ELSE ThrowOf(op[c], OwnLastError(c)))
            /\ pc[c] # "done" => (thrown[c] = "-" /\ ret[c] = NoReturn)

\* Two requests in flight at once with different histories: one waiting
\* after two failures, the other on its first attempt after none.
C13_Witness ==
    /\ pc["c1"] = "wait" /\ Len(outcomes["c1"]) = 2 /\ lastError["c1"] = "HttpError"
    /\ pc["c2"] = "request" /\ attempt["c2"] = 1 /\ lastError["c2"] = "null"

\* C14: once the caller's timeout/cancellation signal has fired for a
\* request, no further attempt is started and the request does not sit out
\* a backoff wait: it is over at the latest with the signal.
C14_SignalInterrupts ==
    [][ \A c \in Calls :
          aborted[c] =>
              /\ pc'[c] = "request" => pc[c] = "request"
              /\ pc'[c] # "wait" ]_vars

(* ======================== validateDeviceCommand ======================== *)
\* The closed action enumeration.
ActionEnumeration ==
    {"takeoff", "land", "move_to", "return_home", "pause", "resume", "stop",
     "capture_photo", "start_video", "stop_video", "set_altitude", "set_speed",
     "custom"}

\* C18: validateDeviceCommand(action, allowedActions) is valid exactly when
\* action is one of the 13 enumerated actions and no allow-list is given or
\* the allow-list contains it; otherwise it is invalid with an error, and an
\* action outside the enumeration is invalid even when the allow-list has it.
C18_ValidateDeviceCommand ==
    vResult # NotValidated =>
        /\ vResult.valid <=>
               /\ vAction \in ActionEnumeration
               /\ (~vAllowed.given \/ vAction \in vAllowed.list)
        /\ ~vResult.valid => vResult.error # "-"
        /\ vAction \notin ActionEnumeration =>
               (~vResult.valid /\ vResult.error = "Invalid action")
        /\ Cardinality(ActionEnumeration) = 13

\* An action outside the enumeration, named by the allow-list, rejected.
C18_Witness ==
    /\ vResult # NotValidated
    /\ vAction = "self_destruct"
    /\ vAllowed.given /\ "self_destruct" \in vAllowed.list
    /\ ~vResult.valid

(* ================== validation and failures of submissions ============= *)
\* C16: a submission that validation rejects (here: an action outside the
\* enumerated set; the missing-confirmation case is C5's) is never retried,
\* causes no network request, and is rejected with the violated rule named.
C16_RejectedNeverSent ==
    \A c \in Calls :
        ( /\ op[c] = "sendCommand" /\ maxAttempts >= 1
          /\ ~validateDeviceCommand(action[c], NoAllowList).valid ) =>
            /\ RequestsIssued(c) = 0
            /\ waits[c] = <<>>
            /\ pc[c] = "done" /\ ret[c].kind = "throw"
            /\ ret[c].err = validateDeviceCommand(action[c], NoAllowList).error

\* C17: no failure is swallowed: a device operation none of whose attempts
\* succeeded and whose last attempt was a transport failure either leaves the failure in the command's state or hands the
\* caller an error, never an ordinary value.
C17_NoFailureSwallowed ==
    \A c \in Calls :
        ( /\ pc[c] = "done" /\ maxAttempts >= 1 /\ ~Succeeded(c)
          /\ outcomes[c][Len(outcomes[c])] = "timeout" ) =>
            \/ ret[c].kind = "throw"
            \/ (target[c] # NoTarget /\ cmd[target[c]].status = "failed")

(* ---------------------- C15: telemetry stream end ---------------------- *)
\* C15: a telemetry stream ends only when the consumer stops consuming or
\* the underlying connection closes, and once the consumer has stopped the
\* underlying connection is released.
C15_StreamReleasedOnStop ==
    /\ tpc = "ended" => (consumer = "stopped" \/ conn = "closed")
    /\ consumer = "stopped" => conn = "closed"

(* ------------------------ C19, C20: stop points ------------------------ *)
Stopped(points, i) == SpeedOf(points[i]) <= SpeedThreshold

\* The maximal runs <<a, b>> of consecutive stopped points.
StoppedRuns(points) ==
    {r \in (1..Len(points)) \X (1..Len(points)) :
        /\ r[1] <= r[2]
        /\ \A i \in r[1]..r[2] : Stopped(points, i)
        /\ r[1] = 1 \/ ~Stopped(points, r[1] - 1)
        /\ r[2] = Len(points) \/ ~Stopped(points, r[2] + 1)}

Span(points, r) == points[r[2]].timestamp - points[r[1]].timestamp

\* The first indices of the runs that last at least DurationThreshold.
LongStops(points) ==
    {r[1] : r \in {q \in StoppedRuns(points) : Span(points, q) >= DurationThreshold}}

Reported == {gStops[k] : k \in 1..Len(gStops)}

\* C19: the reported stops are exactly the first indices of the maximal
\* runs of stopped points (speed at most the threshold, absent speed
\* counting as zero) whose first-to-last span is at least the minimum
\* duration: a run of exactly 60 seconds is reported, one of 59 is not.
C19_StopsAreLongRuns ==
    gStops # NotDetected => Reported = LongStops(gPoints)

\* C20: a run of stopped points that is still open when the input ends and
\* lasts at least the minimum duration is reported as a stop.
C20_TrailingStopReported ==
    gStops # NotDetected =>
        \A r \in StoppedRuns(gPoints) :
            (r[2] = Len(gPoints) /\ Span(gPoints, r) >= DurationThreshold)
                => r[1] \in Reported

\* Every run closed by a moving point is reported exactly when it lasts at
\* least DurationThreshold, and nothing else is reported.
ClosedRunsReported ==
    gStops # NotDetected =>
        Reported = {r[1] : r \in {q \in StoppedRuns(gPoints) :
                        q[2] < Len(gPoints) /\ Span(gPoints, q) >= DurationThreshold}}

(* ------------------------- C21: average speed -------------------------- *)
ElapsedMs(points) == points[Len(points)].timestamp - points[1].timestamp

\* C21: averageSpeed returns exactly 0 for fewer than 2 points or equal
\* first and last timestamps, otherwise the path length divided by the
\* seconds elapsed between the first and the last point; it never divides
\* by zero.
C21_AverageSpeed ==
    aSpeed # NotComputed =>
        /\ aSpeed.den # 0
        /\ IF Len(aPoints) < 2 \/ ElapsedMs(aPoints) = 0
             THEN aSpeed = Zero
             ELSE aSpeed.num * ElapsedMs(aPoints)
                    = calculateTrajectoryLength(aPoints) * 1000 * aSpeed.den

\* A track of positive length whose first and last timestamps are equal.
C21_Witness ==
    /\ aSpeed # NotComputed
    /\ Len(aPoints) >= 2
    /\ ElapsedMs(aPoints) = 0
    /\ calculateTrajectoryLength(aPoints) > 0

(* --------------------- C25, C26: statement validation ------------------ *)
Unquoted(tok) == IF tok = "\"secrets\"" THEN "secrets" ELSE ToLowerCase(tok)

\* The tables a statement reads or writes: the names after FROM and JOIN and
\* after the commas of a FROM list.
TablesNamed(sql) ==
    {Unquoted(sql[i + 1]) : i \in {j \in 1..(Len(sql) - 1) :
                                ToLowerCase(sql[j]) \in {"from", "join", ","}}}

\* C25: a statement naming a table outside the whitelist fails validation,
\* wherever in the statement the table is named, and a table error names a
\* table of the statement that is outside the whitelist.
C25_TablesWhitelisted ==
    sResult # NotChecked =>
        /\ sResult.valid => TablesNamed(sSql) \subseteq sAllowed
        /\ sResult.kind = "table" => sResult.what \in TablesNamed(sSql) \ sAllowed

\* A statement separator followed by a further statement.
HasStackedStatement(sql) ==
    \E i \in 1..(Len(sql) - 1) : sql[i] = ";"

\* OR followed by a comparison of a literal with itself.
HasOrTautology(sql) ==
    \E i \in 1..(Len(sql) - 1) :
        /\ ToLowerCase(sql[i]) = "or"
        /\ \/ sql[i + 1] = "1=1"
           \/ i + 3 <= Len(sql) /\ sql[i + 2] = "=" /\ sql[i + 1] = sql[i + 3]

HasUnionSelect(sql) ==
    \E i \in 1..(Len(sql) - 1) :
        /\ ToLowerCase(sql[i]) = "union"
        /\ \/ ToLowerCase(sql[i + 1]) = "select"
           \/ i + 2 <= Len(sql) /\ ToLowerCase(sql[i + 1]) = "all"
                                /\ ToLowerCase(sql[i + 2]) = "select"

NonSelectVerbs == {"insert", "update", "delete", "drop", "truncate", "alter"}

HasNonSelectVerb(sql) ==
    \E i \in 1..Len(sql) : ToLowerCase(sql[i]) \in NonSelectVerbs

Forbidden(sql) ==
    \/ HasStackedStatement(sql)
    \/ HasOrTautology(sql)
    \/ HasUnionSelect(sql)
    \/ HasNonSelectVerb(sql)

\* C26: a statement containing a stacked statement, an OR tautology, UNION
\* SELECT or a non-SELECT verb is rejected with an error naming the pattern,
\* whatever its tables are.
C26_ForbiddenPatternsRejected ==
    (sResult # NotChecked /\ Forbidden(sSql)) =>
        ~sResult.valid /\ sResult.kind = "pattern"

\* What the pattern scan does guarantee: a separator followed by one of the
\* six listed verbs and more text, the quoted-'1' tautology and an adjacent
\* UNION SELECT are rejected as patterns before any table is looked at.
ListedPatternsRejected ==
    (sResult # NotChecked /\ \E k \in 1..Len(dangerousPatterns) : PatternTest(k, sSql)) =>
        ~sResult.valid /\ sResult.kind = "pattern"

(* ------------- C22, C23, C24, C27, C28, C30: query compiler ------------ *)
HasUserValue(query) ==
    \/ query.timeRange # NoRange
    \/ query.geometry # NoGeometry
    \/ query.select # <<>>
    \/ query.orderBy # <<>>
    \/ query.limit # NoLimit

\* C22: the statement text contains no value of the query; the values are
\* handed to the store as bind values.
C22_NoUserValueInText ==
    /\ \A i \in 1..Len(qSql) : ~qSql[i].user
    /\ \A k \in 1..Len(qExecuted) :
          HasUserValue(qQuery) => qExecuted[k].params # <<>>

BadRange(query) ==
    query.timeRange # NoRange /\ query.timeRange.start > query.timeRange.end

\* C23: a query whose time range starts after it ends fails: no statement is
\* emitted and nothing is executed.
C23_BadRangeRejected ==
    BadRange(qQuery) =>
        /\ qpc \in {"idle", "failed"}
        /\ qSql = <<>>
        /\ qExecuted = <<>>

EffectiveLimit(query) ==
    IF query.limit = NoLimit \/ query.limit = 0 THEN MaxRows
    ELSE Min(query.limit, MaxRows)

\* The value of the statement's LIMIT clause.
LimitClause(sql) ==
    IF \E i \in 1..(Len(sql) - 1) : sql[i].tok = "LIMIT"
      THEN sql[(CHOOSE i \in 1..(Len(sql) - 1) : sql[i].tok = "LIMIT") + 1].tok
      ELSE "no limit"

\* C24: every statement emitted has the limit min(requested, maximum), the
\* maximum when no limit or limit 0 was requested.
C24_LimitClamped ==
    qSql # <<>> => LimitClause(qSql) = ToString(EffectiveLimit(qQuery))

\* C27: a statement is passed to the store only after the validation pass
\* has accepted that statement text.
C27_ValidatedBeforeExecuted ==
    \A k \in 1..Len(qExecuted) : qExecuted[k].sql \in qValidated

\* The columns generateSQL and checkGeoFence themselves refer to.
KnownColumns == {"id", "timestamp", "geom"}

UnknownColumn(query) ==
    \/ \E i \in 1..Len(query.orderBy) : query.orderBy[i].field \notin KnownColumns
    \/ \E i \in 1..Len(query.select) : query.select[i] \notin KnownColumns

\* C28: a query with an ordering entry or projected field naming an unknown
\* column fails and produces no statement.
C28_OrderColumnsWhitelisted ==
    UnknownColumn(qQuery) =>
        /\ qpc \in {"idle", "failed"}
        /\ qSql = <<>>

WellFormed(query) ==
    /\ ~BadRange(query)
    /\ ~UnknownColumn(query)
    /\ query.limit = NoLimit \/ (query.limit >= 1 /\ query.limit <= MaxRows)

\* C30: every statement generated from a well-formed query is accepted by
\* the validation pass under the default table whitelist.
C30_GeneratedStatementAccepted ==
    (qSql # <<>> /\ WellFormed(qQuery)) =>
        validateSQLQuery(TextOf(qSql), DEFAULT_ALLOWED_TABLES).valid

\* The one thing the validation pass objects to in a generated statement of
\* a well-formed query is its table.
GeneratedRejectedForTable ==
    (qSql # <<>> /\ WellFormed(qQuery)) =>
        validateSQLQuery(TextOf(qSql), DEFAULT_ALLOWED_TABLES)
            = Rejected("table", "spatial_data")

(* ----------------------- C29: telemetry framing ------------------------ *)
IsPayload(e) == e # "bad"

RECURSIVE IsSubsequence(_, _)
IsSubsequence(a, b) ==
    IF a = <<>> THEN TRUE
    ELSE IF b = <<>> THEN FALSE
    ELSE IF Head(a) = Head(b) THEN IsSubsequence(Tail(a), Tail(b))
    ELSE IsSubsequence(a, Tail(b))

\* C29: once the stream has been read to its end, the payloads yielded are
\* the JSON events sent, each once and in the order sent, however the bytes
\* were cut into chunks; an event that is not JSON is skipped.
C29_EveryEventYieldedOnce ==
    fBytes = <<>> => fYielded = SelectSeq(fSent, IsPayload)

\* Whatever the cuts, nothing is yielded twice, out of order or from an
\* event that is not JSON: the yielded payloads are a subsequence of the
\* JSON events sent.
YieldedIsSubsequence ==
    IsSubsequence(fYielded, SelectSeq(fSent, IsPayload))

====
